---- MODULE Spec2Model ----
(***************************************************************************)
(* Model of subroutines/src/pcs/univariate_kzg/srs.rs: the structured      *)
(* reference string of the univariate KZG scheme.                          *)
(*                                                                         *)
(* The scalar field F is modelled as the integers modulo FieldOrder.  G1   *)
(* and G2 are cyclic groups of that order; a group element is written as   *)
(* its multiple of a fixed base point (0 is the identity), so that scalar  *)
(* multiplication is multiplication modulo FieldOrder.  The affine and the *)
(* projective form of a point denote the same group element.               *)
(*                                                                         *)
(* The randomness source is the sequence of values its UniformRand draws   *)
(* will yield; each draw removes the head of the sequence.                 *)
(***************************************************************************)
EXTENDS Integers, Sequences, FiniteSets, TLC

\* ------------------------------------------------------------------ bounds
FieldOrder == 3
MaxDegree == 2

Scalars == 0..(FieldOrder - 1)
Degrees == 0..MaxDegree
\* supported_size arguments: in range, equal to the length, and beyond it
Sizes == 0..(MaxDegree + 2)
Readers == {"r1", "r2"}
Streams == [1..3 -> Scalars]

\* --------------------------------------------------------------- variables
VARIABLES
    pc,              \* position of the gen_srs_for_testing call
    rng,             \* the caller's randomness source (draws still to come)
    stream,          \* the randomness source as it was handed to the call
    max_degree_arg,  \* gen_srs_for_testing's max_degree argument
    beta, g, h,      \* locals of gen_srs_for_testing
    powers_of_beta, cur, i,
    powers_of_g,
    pp,              \* the Universal Parameters the callers hold
    res,             \* per reader: its last call on pp and the outcome
    first            \* outcome of the first of two runs on equal inputs

vars == <<pc, rng, stream, max_degree_arg, beta, g, h, powers_of_beta, cur, i,
          powers_of_g, pp, res, first>>

genLocals == <<beta, g, h, powers_of_beta, cur, i, powers_of_g>>

\* -------------------------------------------------------- field and groups
One == 1 % FieldOrder

FMul(a, b) == (a * b) % FieldOrder

\* scalar multiplication of a group element
Mul(point, scalar) == (point * scalar) % FieldOrder

\* b^n in F, the reference the claims compare the loop's scalars with
RECURSIVE Pow(_, _)
Pow(b, n) == IF n = 0 THEN One ELSE FMul(Pow(b, n - 1), b)

\* variant: the first scalar is left out of the batch
batch_mul_skip_first(base, scalars) ==
    [k \in 1..(Len(scalars) - 1) |-> Mul(base, scalars[k + 1])]

\* BatchMulPreprocessing::new(base, n).batch_mul(scalars)
batch_mul(base, scalars) == [k \in DOMAIN scalars |-> Mul(base, scalars[k])]

\* ------------------------------------------------------------ data shapes
UnivariateUniversalParams(pg, hh, bh) == [powers_of_g |-> pg, h |-> hh, beta_h |-> bh]

\* #[derive(Default)]: empty vector, identity points
DefaultParams == UnivariateUniversalParams(<<>>, 0, 0)

UnivariateProverParam(pg) == [powers_of_g |-> pg]

UnivariateVerifierParam(gg, hh, bh) == [g |-> gg, h |-> hh, beta_h |-> bh]

max_degree(P) == Len(P.powers_of_g)

\* ---------------------------------------------------------------- outcomes
\* kind: "value" (plain return), "Ok" / "Err" (a Result), "panic"
Value(pk, vk) == [kind |-> "value", fault |-> "none", pk |-> pk, vk |-> vk]
Ok(pk, vk) == [kind |-> "Ok", fault |-> "none", pk |-> pk, vk |-> vk]
Panic(f) == [kind |-> "panic", fault |-> f, pk |-> <<>>, vk |-> <<>>]
NoOutcome == [kind |-> "none", fault |-> "none", pk |-> <<>>, vk |-> <<>>]
NoCall == [op |-> "none", s |-> 0, out |-> NoOutcome]

\* v[..=end]: faults when end + 1 exceeds the length (end = usize::MAX faults
\* too, and lies beyond Sizes)
SliceToInclusive(v, end) ==
    IF end + 1 > Len(v) THEN Panic("slice_end_index_len_fail")
    ELSE Value(<<SubSeq(v, 1, end + 1)>>, <<>>)

\* v[idx]: faults when idx is not below the length
Index(v, idx) ==
    IF idx >= Len(v) THEN Panic("index_out_of_bounds")
    ELSE Value(<<>>, <<v[idx + 1]>>)

extract_prover_param(P, supported_size) ==
    LET sl == SliceToInclusive(P.powers_of_g, supported_size)
    IN  IF sl.kind = "panic" THEN sl
        ELSE Value(<<UnivariateProverParam(sl.pk[1])>>, <<>>)

\* variant: g is read at supported_size instead of at 0
extract_verifier_param_at_size(P, supported_size) ==
    LET g0 == Index(P.powers_of_g, supported_size)
    IN  IF g0.kind = "panic" THEN g0
        ELSE Value(<<>>, <<UnivariateVerifierParam(g0.vk[1], P.h, P.beta_h)>>)

extract_verifier_param(P, supported_size) ==
    LET g0 == Index(P.powers_of_g, 0)
    IN  IF g0.kind = "panic" THEN g0
        ELSE Value(<<>>, <<UnivariateVerifierParam(g0.vk[1], P.h, P.beta_h)>>)

\* variant: the slice is v[..supported_size], its end excluded
trim_exclusive(P, supported_size) ==
    LET sl == IF supported_size > Len(P.powers_of_g) THEN Panic("slice_end_index_len_fail")
              ELSE Value(<<SubSeq(P.powers_of_g, 1, supported_size)>>, <<>>)
        g0 == Index(P.powers_of_g, 0)
    IN  IF sl.kind = "panic" THEN sl
        ELSE IF g0.kind = "panic" THEN g0
        ELSE Ok(<<UnivariateProverParam(sl.pk[1])>>,
                <<UnivariateVerifierParam(g0.vk[1], P.h, P.beta_h)>>)

trim(P, supported_size) ==
    LET sl == SliceToInclusive(P.powers_of_g, supported_size)
        g0 == Index(P.powers_of_g, 0)
    IN  IF sl.kind = "panic" THEN sl
        ELSE IF g0.kind = "panic" THEN g0
        ELSE Ok(<<UnivariateProverParam(sl.pk[1])>>,
                <<UnivariateVerifierParam(g0.vk[1], P.h, P.beta_h)>>)

\* -------------------------------------------------------------------- Init
Init ==
    /\ pc = "idle"
    /\ rng = <<>>
    /\ stream = <<>>
    /\ max_degree_arg = 0
    /\ beta = 0 /\ g = 0 /\ h = 0
    /\ powers_of_beta = <<>>
    /\ cur = 0
    /\ i = 0
    /\ powers_of_g = <<>>
    /\ pp = DefaultParams
    /\ res = [r \in Readers |-> NoCall]
    /\ first = [used |-> FALSE, pp |-> DefaultParams, rng |-> <<>>]

\* ----------------------------------------------------- gen_srs_for_testing
\* T::rand(rng): the next value of the randomness source, and the source after it
rand(r) == [value |-> Head(r), rest |-> Tail(r)]

\* the caller invokes gen_srs_for_testing(&mut rng, max_degree)
GenStart(st, D) ==
    /\ pc = "idle"
    /\ pc' = "sample_beta"
    /\ rng' = st
    /\ stream' = st
    /\ max_degree_arg' = D
    /\ res' = [r \in Readers |-> NoCall]
    /\ UNCHANGED <<genLocals, pp, first>>

\* let beta = E::ScalarField::rand(rng);
SampleBeta ==
    /\ pc = "sample_beta"
    /\ beta' = rand(rng).value
    /\ rng' = rand(rng).rest
    /\ pc' = "sample_g"
    /\ UNCHANGED <<stream, max_degree_arg, g, h, powers_of_beta, cur, i,
                   powers_of_g, pp, res, first>>

\* let g = E::G1::rand(rng);
SampleG ==
    /\ pc = "sample_g"
    /\ g' = rand(rng).value
    /\ rng' = rand(rng).rest
    /\ pc' = "sample_h"
    /\ UNCHANGED <<stream, max_degree_arg, beta, h, powers_of_beta, cur, i,
                   powers_of_g, pp, res, first>>

\* let h = E::G2::rand(rng);
SampleH ==
    /\ pc = "sample_h"
    /\ h' = rand(rng).value
    /\ rng' = rand(rng).rest
    /\ pc' = "init_powers"
    /\ UNCHANGED <<stream, max_degree_arg, beta, g, powers_of_beta, cur, i,
                   powers_of_g, pp, res, first>>

\* variant: the vector starts empty
InitPowersEmpty ==
    /\ pc = "init_powers"
    /\ powers_of_beta' = <<>>
    /\ cur' = beta
    /\ i' = 0
    /\ pc' = "loop"
    /\ UNCHANGED <<rng, stream, max_degree_arg, beta, g, h, powers_of_g, pp, res, first>>

\* variant: the vector is a retained buffer, initialised only when empty
InitPowersRetained ==
    /\ pc = "init_powers"
    /\ powers_of_beta' = IF powers_of_beta = <<>> THEN <<One>> ELSE powers_of_beta
    /\ cur' = beta
    /\ i' = 0
    /\ pc' = "loop"
    /\ UNCHANGED <<rng, stream, max_degree_arg, beta, g, h, powers_of_g, pp, res, first>>

\* let mut powers_of_beta = vec![E::ScalarField::one()]; let mut cur = beta;
InitPowers ==
    /\ pc = "init_powers"
    /\ powers_of_beta' = <<One>>
    /\ cur' = beta
    /\ i' = 0
    /\ pc' = "loop"
    /\ UNCHANGED <<rng, stream, max_degree_arg, beta, g, h, powers_of_g, pp, res, first>>

\* variant: multiplies before it pushes
LoopStepMulFirst ==
    /\ pc = "loop"
    /\ i < max_degree_arg
    /\ powers_of_beta' = Append(powers_of_beta, FMul(cur, beta))
    /\ cur' = FMul(cur, beta)
    /\ i' = i + 1
    /\ UNCHANGED <<pc, rng, stream, max_degree_arg, beta, g, h, powers_of_g, pp, res, first>>

\* one iteration of: for _ in 0..max_degree { powers_of_beta.push(cur); cur *= &beta; }
LoopStep ==
    /\ pc = "loop"
    /\ i < max_degree_arg
    /\ powers_of_beta' = Append(powers_of_beta, cur)
    /\ cur' = FMul(cur, beta)
    /\ i' = i + 1
    /\ UNCHANGED <<pc, rng, stream, max_degree_arg, beta, g, h, powers_of_g, pp, res, first>>

\* the loop is over; powers_of_g = batch_mul of g over powers_of_beta
BatchMul ==
    /\ pc = "loop"
    /\ i >= max_degree_arg
    /\ powers_of_g' = batch_mul(g, powers_of_beta)
    /\ pc' = "finish"
    /\ UNCHANGED <<rng, stream, max_degree_arg, beta, g, h, powers_of_beta, cur, i,
                   pp, res, first>>

\* h.into_affine(), beta_h = h.mul(beta).into_affine(), Ok(pp)
Finish ==
    /\ pc = "finish"
    /\ pp' = UnivariateUniversalParams(powers_of_g, h, Mul(h, beta))
    /\ pc' = "done"
    /\ UNCHANGED <<rng, stream, max_degree_arg, genLocals, res, first>>

\* the caller runs gen_srs_for_testing again: same max_degree, an identical stream
GenRerun ==
    /\ pc = "done"
    /\ ~first.used
    /\ first' = [used |-> TRUE, pp |-> pp, rng |-> rng]
    /\ rng' = stream
    /\ pc' = "sample_beta"
    /\ UNCHANGED <<stream, max_degree_arg, genLocals, pp, res>>

\* ----------------------------------------------------------------- readers
\* Each call is one step: it reads pp through &self and returns.  res keeps,
\* for each reader, its last call on the parameters in hand; GenStart clears
\* it, since the run under way will replace those parameters.
ParamsInHand == pc \in {"idle", "done"}

Record(r, op, s, out) == res' = [res EXCEPT ![r] = [op |-> op, s |-> s, out |-> out]]

CallExtractProverParam(r, s) ==
    /\ ParamsInHand
    /\ Record(r, "extract_prover_param", s, extract_prover_param(pp, s))
    /\ UNCHANGED <<pc, rng, stream, max_degree_arg, genLocals, pp, first>>

CallExtractVerifierParam(r, s) ==
    /\ ParamsInHand
    /\ Record(r, "extract_verifier_param", s, extract_verifier_param(pp, s))
    /\ UNCHANGED <<pc, rng, stream, max_degree_arg, genLocals, pp, first>>

\* variant: truncates the shared vector in place instead of copying the prefix
CallTrimDrain(r, s) ==
    /\ ParamsInHand
    /\ Record(r, "trim", s, trim(pp, s))
    /\ pp' = IF s + 1 > Len(pp.powers_of_g) THEN pp
             ELSE [pp EXCEPT !.powers_of_g = SubSeq(pp.powers_of_g, 1, s + 1)]
    /\ UNCHANGED <<pc, rng, stream, max_degree_arg, genLocals, first>>

CallTrim(r, s) ==
    /\ ParamsInHand
    /\ Record(r, "trim", s, trim(pp, s))
    /\ UNCHANGED <<pc, rng, stream, max_degree_arg, genLocals, pp, first>>

\* ---------------------------------------------------------- specifications
Generate ==
    \/ \E st \in Streams, D \in Degrees : GenStart(st, D)
    \/ SampleBeta
    \/ SampleG
    \/ SampleH
    \/ InitPowers
    \/ LoopStep
    \/ BatchMul
    \/ Finish

Read ==
    \E r \in Readers, s \in Sizes :
        \/ CallExtractProverParam(r, s)
        \/ CallExtractVerifierParam(r, s)
        \/ CallTrim(r, s)

Next == Generate \/ Read

Spec == Init /\ [][Next]_vars

\* two runs of gen_srs_for_testing on equal inputs
NextRerun == Generate \/ GenRerun

SpecRerun == Init /\ [][NextRerun]_vars

\* ================================================================== claims
\* pp is the value a finished gen_srs_for_testing call returned
Generated == pc = "done"

\* C1: for every s greater than P.max_degree(), extract_prover_param(s) and
\* trim(s) end with an out-of-range error value: they never panic and never
\* return Prover Parameters.
C1_OutOfRangeIsError ==
    \A r \in Readers :
        (/\ Generated
         /\ res[r].op \in {"extract_prover_param", "trim"}
         /\ res[r].s > max_degree(pp))
        => res[r].out.kind = "Err"

\* C2: the Universal Parameters gen_srs_for_testing(rng, D) returns report
\* max_degree() = D, and max_degree() is powers_of_g.length - 1.
C2_MaxDegreeIsD ==
    Generated =>
        /\ max_degree(pp) = max_degree_arg
        /\ max_degree(pp) = Len(pp.powers_of_g) - 1

\* C3: for every s with 0 <= s <= P.max_degree(), the bound included,
\* extract_prover_param(s) returns the first s+1 elements of P.powers_of_g in
\* order, so the length of the result minus 1 is s.
C3_ProverParamIsPrefix ==
    \A r \in Readers :
        (/\ Generated
         /\ res[r].op = "extract_prover_param"
         /\ res[r].s <= max_degree(pp))
        => /\ res[r].out.kind = "value"
           /\ res[r].out.pk = <<UnivariateProverParam(SubSeq(pp.powers_of_g, 1, res[r].s + 1))>>
           /\ Len(res[r].out.pk[1].powers_of_g) - 1 = res[r].s

\* C4: trim(s) ends as the two extractions on the same P and s do: when both
\* return, trim returns Ok of exactly their pair; when extract_prover_param
\* faults, trim faults in the same way.
C4_TrimIsBothExtractions ==
    \A r \in Readers :
        res[r].op = "trim" =>
            LET ep == extract_prover_param(pp, res[r].s)
                ev == extract_verifier_param(pp, res[r].s)
                out == res[r].out
            IN  IF ep.kind = "value" /\ ev.kind = "value"
                THEN out = Ok(ep.pk, ev.vk)
                ELSE /\ out.kind = "panic"
                     /\ ep.kind = "panic" => out = ep

C4_Witness ==
    \E r1, r2 \in Readers :
        /\ Generated
        /\ res[r1].op = "trim" /\ res[r1].out.kind = "Ok" /\ res[r1].s >= 1
        /\ res[r2].op = "trim" /\ res[r2].out.kind = "panic"

\* C5: on generated parameters, extract_verifier_param(s1) and
\* extract_verifier_param(s2) with s1 <= s2 <= max_degree are equal, and are
\* the triple (powers_of_g[0], h, beta_h).
C5_VerifierParamIgnoresSize ==
    \A r1, r2 \in Readers :
        (/\ Generated
         /\ res[r1].op = "extract_verifier_param"
         /\ res[r2].op = "extract_verifier_param"
         /\ res[r1].s <= res[r2].s
         /\ res[r2].s <= max_degree(pp))
        => /\ res[r1].out = res[r2].out
           /\ Len(pp.powers_of_g) >= 1
           /\ res[r1].out =
                Value(<<>>, <<[g |-> pp.powers_of_g[1], h |-> pp.h, beta_h |-> pp.beta_h]>>)

C5_Witness ==
    \E r1, r2 \in Readers :
        /\ Generated
        /\ res[r1].op = "extract_verifier_param"
        /\ res[r2].op = "extract_verifier_param"
        /\ 1 <= res[r1].s
        /\ res[r1].s < res[r2].s
        /\ res[r2].s <= max_degree(pp)
        /\ pp.powers_of_g[res[r1].s + 1] # pp.powers_of_g[1]

\* C6: the returned parameters have powers_of_g[k] = g^(beta^k) for every k in
\* 0..D (so powers_of_g[0] = g), h the sampled G2 element and beta_h = h^beta.
C6_PowersOfBeta ==
    Generated =>
        /\ \A k \in 0..max_degree_arg :
              /\ k + 1 \in DOMAIN pp.powers_of_g
              /\ pp.powers_of_g[k + 1] = Mul(g, Pow(beta, k))
        /\ pp.powers_of_g[1] = g
        /\ pp.h = h
        /\ pp.beta_h = Mul(h, beta)

C6_Witness ==
    /\ Generated
    /\ max_degree_arg = MaxDegree
    /\ beta >= 2 /\ g # 0 /\ h # 0
    /\ pp.powers_of_g[2] # pp.powers_of_g[1]

\* C7: a second run on the same max_degree and an identical stream draws beta,
\* then g, then h from the stream, returns parameters equal to the first run's
\* and leaves the randomness source as the first run left it.
C7_Deterministic ==
    /\ Generated =>
          /\ beta = stream[1] /\ g = stream[2] /\ h = stream[3]
    /\ (Generated /\ first.used) =>
          /\ pp = first.pp
          /\ rng = first.rng

C7_Witness ==
    /\ Generated
    /\ first.used
    /\ max_degree_arg = MaxDegree
    /\ stream[1] # stream[2]
    /\ stream[2] # stream[3]
    /\ pp = first.pp

\* C8: for every D, D = 0 included, the loop leaves exactly the D+1 scalars
\* beta^0 .. beta^D in powers_of_beta, and the returned powers_of_g has D+1
\* elements.
C8_LoopBuildsDPlusOne ==
    /\ ((pc = "loop" /\ i >= max_degree_arg) \/ pc \in {"finish", "done"}) =>
          /\ Len(powers_of_beta) = max_degree_arg + 1
          /\ \A k \in 1..Len(powers_of_beta) : powers_of_beta[k] = Pow(beta, k - 1)
    /\ Generated => Len(pp.powers_of_g) = max_degree_arg + 1

C8_Witness ==
    /\ Generated
    /\ max_degree_arg = 0
    /\ Len(pp.powers_of_g) = 1
    /\ beta >= 2

\* C9: a call of extract_prover_param, extract_verifier_param or trim by any
\* reader leaves every field of P as it was, and two calls of the same
\* operation with the same supported_size on P have the same result, whatever
\* was called before or in between.
C9_ReadersLeaveParams ==
    /\ [](\A r1, r2 \in Readers :
            (res[r1].op # "none" /\ res[r1].op = res[r2].op /\ res[r1].s = res[r2].s)
            => res[r1].out = res[r2].out)
    /\ [][(\E r \in Readers : res'[r] # res[r] /\ res'[r].op # "none") => pp' = pp]_vars

C9_Witness ==
    /\ Generated
    /\ res["r1"].op = "trim" /\ res["r1"].out.kind = "Ok"
    /\ res["r1"].s + 1 < Len(pp.powers_of_g)
    /\ res["r2"].op = "trim" /\ res["r2"].s = res["r1"].s

\* C10: generated parameters have a non-empty powers_of_g; on them
\* extract_verifier_param(s) returns for every s and trim(0) returns Prover
\* Parameters holding only g with Verifier Parameters (g, h, beta_h);
\* extract_verifier_param faults only when powers_of_g is empty.
C10_GeneratedNonEmpty ==
    /\ Generated => Len(pp.powers_of_g) >= 1
    /\ \A r \in Readers :
          /\ (Generated /\ res[r].op = "extract_verifier_param")
                => res[r].out.kind = "value"
          /\ (Generated /\ res[r].op = "trim" /\ res[r].s = 0)
                => res[r].out = Ok(<<UnivariateProverParam(<<g>>)>>,
                                   <<UnivariateVerifierParam(g, pp.h, pp.beta_h)>>)
          /\ (res[r].op = "extract_verifier_param" /\ res[r].out.kind = "panic")
                => pp.powers_of_g = <<>>

C10_Witness ==
    \E r1, r2 \in Readers :
        /\ Generated
        /\ res[r1].op = "extract_verifier_param"
        /\ res[r1].s > max_degree(pp)
        /\ res[r1].out.kind = "value"
        /\ res[r2].op = "trim" /\ res[r2].s = 0 /\ res[r2].out.kind = "Ok"

====
